---- MODULE Spec2Model ----
(***************************************************************************)
(* Model of the convert_dump_to_hf command of oldp-toolkit:                *)
(*   _load_jsonl_data  (RecordSource)                                      *)
(*   process_case      (EnrichmentTransform)                               *)
(*   _save_dataset     (SinkRouter)                                        *)
(* Python values are tagged records [t |-> type name, v |-> payload];      *)
(* a Python str is a sequence of one-character strings, so that strip(),   *)
(* lower(), json.loads and json.dumps are modelled by what they do.        *)
(***************************************************************************)
EXTENDS Integers, Sequences, FiniteSets, TLC

VARIABLES
    \* ---- _load_jsonl_data ----
    path_exists,        \* path.exists() for the input file
    file,               \* the lines of the input file, as the file iterator yields them
    skip,               \* argument skip
    limit,              \* argument limit (PyNone when not given)
    i,                  \* enumerate index of the next line to read
    data,               \* local list `data`
    entries_processed,  \* local counter
    warnings,           \* raw indices for which logger.warning was emitted
    \* ---- process_case ----
    example_in,         \* the record as it was handed to process_case
    example,            \* the record being mutated / returned
    markdown_text,      \* local of process_case (result of md)
    markers,            \* local of process_case (result of extract)
    reference_markers,  \* local of process_case (list of dicts, then its dump)
    calls,              \* capabilities invoked so far, with their argument
    caught,             \* the step whose exception the except clause caught ("none" if none)
    \* ---- _save_dataset ----
    args,               \* the argparse namespace fields read by _save_dataset
    output_format,      \* local of _save_dataset
    dataset,            \* the rows of the dataset handed to _save_dataset
    sink_calls,         \* sink adapter invocations so far
    \* ---- handle and main ----
    entry,              \* what the caller invoked: "operation", "handle" or "main"
    log,                \* messages handle gave to logger.error
    ds_calls,           \* calls on the dataset abstraction made by handle
    pending,            \* rows Dataset.map has not yet handed to its function
    row,                \* the row Dataset.map is handing to its function
    mapped,             \* rows of the dataset Dataset.map is building
    stderr,             \* what main printed to sys.stderr
    exit_status,        \* completion status of the run (PyNone while it runs)
    \* ---- control ----
    pc,                 \* position in the operation under analysis
    err                 \* the exception propagating out of the operation, or NoError

vars == <<path_exists, file, skip, limit, i, data, entries_processed, warnings,
          example_in, example, markdown_text, markers, reference_markers, calls, caught,
          args, output_format, dataset, sink_calls,
          entry, log, ds_calls, pending, row, mapped, stderr, exit_status, pc, err>>

loadVars == <<path_exists, file, skip, limit, i, data, entries_processed, warnings>>
caseVars == <<example_in, example, markdown_text, markers, reference_markers, calls, caught>>
saveVars == <<args, output_format, dataset, sink_calls>>
handleVars == <<entry, log, ds_calls, pending, row, mapped, stderr, exit_status>>

-----------------------------------------------------------------------------
(* Bounds of the model *)

MaxLines == 5
MaxSkip == 4
MaxLimit == 3
MaxMarkers == 2
MaxRows == 2

-----------------------------------------------------------------------------
(* Python values *)

PyNone == [t |-> "NoneType", v |-> 0]
PyInt(n) == [t |-> "int", v |-> n]
PyBool(b) == [t |-> "bool", v |-> b]
PyStr(s) == [t |-> "str", v |-> s]
PyList(xs) == [t |-> "list", v |-> xs]
PyDict(pairs) == [t |-> "dict", v |-> pairs]
PyObject(n) == [t |-> "object", v |-> n]

\* bool(x): Python truthiness
Truthy(x) ==
    CASE x.t = "NoneType" -> FALSE
      [] x.t = "int" -> x.v # 0
      [] x.t = "bool" -> x.v
      [] x.t = "str" -> Len(x.v) > 0
      [] x.t = "list" -> Len(x.v) > 0
      [] x.t = "dict" -> Len(x.v) > 0
      [] OTHER -> TRUE

Min(a, b) == IF a <= b THEN a ELSE b
Max(a, b) == IF a >= b THEN a ELSE b

\* key in d
DictHas(d, k) == \E n \in 1..Len(d.v) : d.v[n][1] = k

\* d[key]
DictGet(d, k) == d.v[CHOOSE n \in 1..Len(d.v) : d.v[n][1] = k][2]

\* d[key] = val : an existing key keeps its position, a new key is appended
DictSet(d, k, val) ==
    IF DictHas(d, k)
    THEN PyDict([n \in 1..Len(d.v) |-> IF d.v[n][1] = k THEN <<k, val>> ELSE d.v[n]])
    ELSE PyDict(Append(d.v, <<k, val>>))

\* d.get(key, default)
DictGetDefault(d, k, default) == IF DictHas(d, k) THEN DictGet(d, k) ELSE default

DictKeys(d) == {d.v[n][1] : n \in 1..Len(d.v)}

-----------------------------------------------------------------------------
(* str methods *)

Whitespace == {" ", "\n", "\t"}

RECURSIVE LStrip(_)
LStrip(s) == IF Len(s) > 0 /\ Head(s) \in Whitespace THEN LStrip(Tail(s)) ELSE s

RECURSIVE RStrip(_)
RStrip(s) ==
    IF Len(s) > 0 /\ s[Len(s)] \in Whitespace THEN RStrip(SubSeq(s, 1, Len(s) - 1)) ELSE s

\* str.strip()
Strip(s) == RStrip(LStrip(s))

UpperChars == <<"A", "B", "C", "D", "E", "F", "G", "H", "I", "J", "K", "L", "M",
                "N", "O", "P", "Q", "R", "S", "T", "U", "V", "W", "X", "Y", "Z">>
LowerChars == <<"a", "b", "c", "d", "e", "f", "g", "h", "i", "j", "k", "l", "m",
                "n", "o", "p", "q", "r", "s", "t", "u", "v", "w", "x", "y", "z">>

LowerChar(c) ==
    IF \E n \in 1..Len(UpperChars) : UpperChars[n] = c
    THEN LowerChars[CHOOSE n \in 1..Len(UpperChars) : UpperChars[n] = c]
    ELSE c

\* a variant of Lower that leaves the text as it is
Lower_Identity(s) == s

\* str.lower()
Lower(s) == [n \in 1..Len(s) |-> LowerChar(s[n])]

DigitChars == <<"0", "1", "2", "3", "4", "5", "6", "7", "8", "9">>
IsDigit(c) == \E d \in 1..10 : DigitChars[d] = c
DigitVal(c) == (CHOOSE d \in 1..10 : DigitChars[d] = c) - 1

\* str(n) for an int n >= 0
RECURSIVE NatToStr(_)
NatToStr(n) == IF n < 10 THEN <<DigitChars[n + 1]>> ELSE NatToStr(n \div 10) \o <<DigitChars[(n % 10) + 1]>>

IntToStr(n) == IF n < 0 THEN <<"-">> \o NatToStr(-n) ELSE NatToStr(n)

\* str(x); the payload of an object is the text its __str__ returns
Str(x) ==
    CASE x.t = "str" -> x.v
      [] x.t = "int" -> IntToStr(x.v)
      [] x.t = "bool" -> IF x.v THEN <<"T", "r", "u", "e">> ELSE <<"F", "a", "l", "s", "e">>
      [] x.t = "NoneType" -> <<"N", "o", "n", "e">>
      [] x.t = "object" -> x.v

-----------------------------------------------------------------------------
(* json.loads: a recursive-descent reader over the characters of a str.    *)
(* A read returns [ok, val, pos]: pos is the index after the value read.   *)

ParseFail == [ok |-> FALSE, val |-> PyNone, pos |-> 0]
ParseOk(val, pos) == [ok |-> TRUE, val |-> val, pos |-> pos]

\* the character at index p, "" past the end
CharAt(s, p) == IF p >= 1 /\ p <= Len(s) THEN s[p] ELSE ""

RECURSIVE SkipWs(_, _)
SkipWs(s, p) == IF CharAt(s, p) \in Whitespace THEN SkipWs(s, p + 1) ELSE p

\* does the literal word w stand at index p of s
MatchAt(s, p, w) == p + Len(w) - 1 <= Len(s) /\ SubSeq(s, p, p + Len(w) - 1) = w

\* the characters of a string literal after its opening quote
RECURSIVE ScanString(_, _, _)
ScanString(s, q, acc) ==
    LET c == CharAt(s, q) IN
    CASE c = "" -> ParseFail
      [] c = "\"" -> ParseOk(PyStr(acc), q + 1)
      [] c \in {"\n", "\t"} -> ParseFail
      [] c = "\\" ->
            LET e == CharAt(s, q + 1) IN
            CASE e \in {"\"", "\\", "/"} -> ScanString(s, q + 2, Append(acc, e))
              [] e = "n" -> ScanString(s, q + 2, Append(acc, "\n"))
              [] e = "t" -> ScanString(s, q + 2, Append(acc, "\t"))
              [] OTHER -> ParseFail
      [] OTHER -> ScanString(s, q + 1, Append(acc, c))

RECURSIVE ScanDigits(_, _, _)
ScanDigits(s, q, acc) ==
    IF IsDigit(CharAt(s, q)) THEN ScanDigits(s, q + 1, acc * 10 + DigitVal(s[q])) ELSE ParseOk(PyInt(acc), q)

\* an integer literal: -? (0 | [1-9][0-9]*)
ParseNumber(s, p) ==
    LET neg == CharAt(s, p) = "-"
        q == IF neg THEN p + 1 ELSE p
    IN  IF ~IsDigit(CharAt(s, q)) THEN ParseFail
        ELSE IF s[q] = "0" THEN ParseOk(PyInt(0), q + 1)
        ELSE LET r == ScanDigits(s, q, 0)
             IN  ParseOk(PyInt(IF neg THEN 0 - r.val.v ELSE r.val.v), r.pos)

RECURSIVE ParseValue(_, _)
RECURSIVE ParseElems(_, _, _)
RECURSIVE ParseMembers(_, _, _)

\* the elements of an array, from the first element on
ParseElems(s, q, acc) ==
    LET r == ParseValue(s, q) IN
    IF ~r.ok THEN ParseFail
    ELSE LET e == SkipWs(s, r.pos)
             c == CharAt(s, e)
         IN  CASE c = "," -> ParseElems(s, SkipWs(s, e + 1), Append(acc, r.val))
               [] c = "]" -> ParseOk(PyList(Append(acc, r.val)), e + 1)
               [] OTHER -> ParseFail

\* the members of an object, from the first key on; a repeated key keeps the last value
ParseMembers(s, q, acc) ==
    IF CharAt(s, q) # "\"" THEN ParseFail
    ELSE LET k == ScanString(s, q + 1, <<>>) IN
         IF ~k.ok THEN ParseFail
         ELSE LET c == SkipWs(s, k.pos) IN
              IF CharAt(s, c) # ":" THEN ParseFail
              ELSE LET r == ParseValue(s, SkipWs(s, c + 1)) IN
                   IF ~r.ok THEN ParseFail
                   ELSE LET e == SkipWs(s, r.pos)
                            d == DictSet(acc, k.val.v, r.val)
                        IN  CASE CharAt(s, e) = "," -> ParseMembers(s, SkipWs(s, e + 1), d)
                              [] CharAt(s, e) = "}" -> ParseOk(d, e + 1)
                              [] OTHER -> ParseFail

ParseValue(s, p) ==
    LET c == CharAt(s, p) IN
    CASE c = "{" ->
            LET q == SkipWs(s, p + 1) IN
            IF CharAt(s, q) = "}" THEN ParseOk(PyDict(<<>>), q + 1) ELSE ParseMembers(s, q, PyDict(<<>>))
      [] c = "[" ->
            LET q == SkipWs(s, p + 1) IN
            IF CharAt(s, q) = "]" THEN ParseOk(PyList(<<>>), q + 1) ELSE ParseElems(s, q, <<>>)
      [] c = "\"" -> ScanString(s, p + 1, <<>>)
      [] c = "-" \/ IsDigit(c) -> ParseNumber(s, p)
      [] MatchAt(s, p, <<"t", "r", "u", "e">>) -> ParseOk(PyBool(TRUE), p + 4)
      [] MatchAt(s, p, <<"f", "a", "l", "s", "e">>) -> ParseOk(PyBool(FALSE), p + 5)
      [] MatchAt(s, p, <<"n", "u", "l", "l">>) -> ParseOk(PyNone, p + 4)
      [] OTHER -> ParseFail

\* json.loads(s): [ok |-> FALSE] stands for json.JSONDecodeError
JsonLoads(s) ==
    LET r == ParseValue(s, SkipWs(s, 1)) IN
    IF r.ok /\ SkipWs(s, r.pos) = Len(s) + 1
    THEN [ok |-> TRUE, val |-> r.val]
    ELSE [ok |-> FALSE, val |-> PyNone]

-----------------------------------------------------------------------------
(* json.dumps with the default separators (", " and ": ")                  *)

RECURSIVE Serializable(_)
Serializable(x) ==
    CASE x.t = "list" -> \A n \in 1..Len(x.v) : Serializable(x.v[n])
      [] x.t = "dict" -> \A n \in 1..Len(x.v) : Serializable(x.v[n][2])
      [] x.t = "object" -> FALSE
      [] OTHER -> TRUE

\* a variant of EscapeChar that copies every character as it is
EscapeChar_Raw(c) == <<c>>

EscapeChar(c) ==
    CASE c = "\"" -> <<"\\", "\"">>
      [] c = "\\" -> <<"\\", "\\">>
      [] c = "\n" -> <<"\\", "n">>
      [] c = "\t" -> <<"\\", "t">>
      [] OTHER -> <<c>>

RECURSIVE EscapeStr(_)
EscapeStr(s) == IF s = <<>> THEN <<>> ELSE EscapeChar(Head(s)) \o EscapeStr(Tail(s))

Quote(s) == <<"\"">> \o EscapeStr(s) \o <<"\"">>

RECURSIVE JsonDumps(_)
RECURSIVE DumpElems(_, _)
RECURSIVE DumpMembers(_, _)

DumpElems(xs, n) ==
    IF n > Len(xs) THEN <<>>
    ELSE (IF n > 1 THEN <<",", " ">> ELSE <<>>) \o JsonDumps(xs[n]) \o DumpElems(xs, n + 1)

DumpMembers(ps, n) ==
    IF n > Len(ps) THEN <<>>
    ELSE (IF n > 1 THEN <<",", " ">> ELSE <<>>)
         \o Quote(ps[n][1]) \o <<":", " ">> \o JsonDumps(ps[n][2]) \o DumpMembers(ps, n + 1)

\* json.dumps(x) for a Serializable x (it raises TypeError otherwise)
JsonDumps(x) ==
    CASE x.t = "NoneType" -> <<"n", "u", "l", "l">>
      [] x.t = "bool" -> IF x.v THEN <<"t", "r", "u", "e">> ELSE <<"f", "a", "l", "s", "e">>
      [] x.t = "int" -> IntToStr(x.v)
      [] x.t = "str" -> Quote(x.v)
      [] x.t = "list" -> <<"[">> \o DumpElems(x.v, 1) \o <<"]">>
      [] x.t = "dict" -> <<"{">> \o DumpMembers(x.v, 1) \o <<"}">>


-----------------------------------------------------------------------------
(* Exceptions *)

NoError == [type |-> "none", format |-> <<>>]
FileNotFoundError == [type |-> "FileNotFoundError", format |-> <<>>]
\* ValueError("--config-name is required for {output_format} format")
ConfigNameRequired(fmt) == [type |-> "ValueError: --config-name is required", format |-> fmt]
\* ValueError("Unsupported output format: {output_format}")
UnsupportedFormat(fmt) == [type |-> "ValueError: Unsupported output format", format |-> fmt]
\* whatever a sink adapter raises (network, permissions, disk)
SinkError == [type |-> "SinkError", format |-> <<>>]

-----------------------------------------------------------------------------
(* The values the variables of an operation hold while another operation   *)
(* is the one under analysis                                               *)

IdleLoad ==
    /\ path_exists = TRUE /\ file = <<>> /\ skip = 0 /\ limit = PyNone /\ i = 0 /\ data = <<>>
    /\ entries_processed = 0 /\ warnings = {}

IdleCase ==
    /\ example_in = PyNone /\ example = PyNone /\ markdown_text = PyNone
    /\ markers = <<>> /\ reference_markers = PyNone /\ calls = <<>> /\ caught = "none"

IdleSave ==
    /\ args = PyNone /\ output_format = <<>> /\ dataset = <<>> /\ sink_calls = <<>>

IdleHandle ==
    /\ entry = "operation" /\ log = <<>> /\ ds_calls = <<>> /\ pending = {} /\ row = 0
    /\ mapped = <<>> /\ stderr = <<>> /\ exit_status = PyNone

-----------------------------------------------------------------------------
(* _load_jsonl_data(file_path, skip, limit)                                *)

Key_id == <<"i", "d">>

\* the record a valid line k (counted from 1) of an input file stands for
RecordOfLine(k) == PyDict(<< <<Key_id, PyInt(k)>> >>)

LineKinds == {"valid", "malformed", "blank"}

\* The text of the k-th line of an input file (k counted from 1): a JSON
\* object carrying its own line number, the same object with its closing
\* brace missing, or a whitespace-only line.
LineText(kind, k) ==
    CASE kind = "valid" -> <<"{", "\"", "i", "d", "\"", ":", " ">> \o NatToStr(k) \o <<"}", "\n">>
      [] kind = "malformed" -> <<"{", "\"", "i", "d", "\"", ":", " ">> \o NatToStr(k) \o <<"\n">>
      [] kind = "blank" -> <<" ", "\n">>
      [] kind = "content" ->
            <<"{", "\"", "i", "d", "\"", ":", " ">> \o NatToStr(k)
            \o <<",", " ", "\"", "c", "o", "n", "t", "e", "n", "t", "\"", ":", " ",
                 "\"", "<", "b", ">", "x", "\"", "}", "\n">>

InputFiles ==
    UNION {{[k \in 1..n |-> LineText(kinds[k], k)] : kinds \in [1..n -> LineKinds]} : n \in 0..MaxLines}

Limits == {PyNone} \cup {PyInt(n) : n \in 0..MaxLimit}

InitLoad ==
    /\ path_exists \in BOOLEAN
    /\ file \in (IF path_exists THEN InputFiles ELSE {<<>>})
    /\ skip \in 0..MaxSkip
    /\ limit \in Limits
    /\ i = 0
    /\ data = <<>>
    /\ entries_processed = 0
    /\ warnings = {}
    /\ pc = "load_start"
    /\ err = NoError
    /\ IdleCase /\ IdleSave /\ IdleHandle

\* line = line.strip() for the line at enumerate index idx
StrippedLine(idx) == Strip(file[idx + 1])

\* a variant of SkipsLine that skips one line too many
SkipsLine_OffByOne(idx, sk) == idx <= sk

\* if i < skip
SkipsLine(idx, sk) == idx < sk

\* a variant of LimitReached that lets one record too many through
LimitReached_OffByOne(lim, n) == Truthy(lim) /\ n > lim.v

\* if limit and entries_processed >= limit
LimitReached(lim, n) == Truthy(lim) /\ n >= lim.v

\* if not path.exists(): raise FileNotFoundError(...)
LoadNotFound ==
    /\ pc = "load_start" /\ ~path_exists
    /\ err' = FileNotFoundError
    /\ pc' = "load_raised"
    /\ UNCHANGED <<loadVars, caseVars, saveVars, handleVars>>

\* with open_func(file_path, mode, encoding="utf-8") as f
LoadOpen ==
    /\ pc = "load_start" /\ path_exists
    /\ pc' = "load_loop"
    /\ UNCHANGED <<loadVars, caseVars, saveVars, err, handleVars>>

\* for i, line in enumerate(f): the iterator is exhausted
LoadEOF ==
    /\ pc = "load_loop" /\ i = Len(file)
    /\ pc' = "loaded"
    /\ UNCHANGED <<loadVars, caseVars, saveVars, err, handleVars>>

\* if not line: continue
LoadBlank ==
    /\ pc = "load_loop" /\ i < Len(file)
    /\ StrippedLine(i) = <<>>
    /\ i' = i + 1
    /\ UNCHANGED <<path_exists, file, skip, limit, data, entries_processed, warnings, caseVars, saveVars, pc, err, handleVars>>

\* if i < skip: continue
LoadSkipped ==
    /\ pc = "load_loop" /\ i < Len(file)
    /\ StrippedLine(i) # <<>>
    /\ SkipsLine(i, skip)
    /\ i' = i + 1
    /\ UNCHANGED <<path_exists, file, skip, limit, data, entries_processed, warnings, caseVars, saveVars, pc, err, handleVars>>

\* if limit and entries_processed >= limit: break
LoadBreak ==
    /\ pc = "load_loop" /\ i < Len(file)
    /\ StrippedLine(i) # <<>>
    /\ ~SkipsLine(i, skip)
    /\ LimitReached(limit, entries_processed)
    /\ pc' = "loaded"
    /\ UNCHANGED <<loadVars, caseVars, saveVars, err, handleVars>>

\* data.append(json.loads(line)); entries_processed += 1
LoadAppend ==
    /\ pc = "load_loop" /\ i < Len(file)
    /\ StrippedLine(i) # <<>>
    /\ ~SkipsLine(i, skip)
    /\ ~LimitReached(limit, entries_processed)
    /\ JsonLoads(StrippedLine(i)).ok
    /\ data' = Append(data, JsonLoads(StrippedLine(i)).val)
    /\ entries_processed' = entries_processed + 1
    /\ i' = i + 1
    /\ UNCHANGED <<path_exists, file, skip, limit, warnings, caseVars, saveVars, pc, err, handleVars>>

\* a variant of LoadMalformed in which the decode error ends the loop
LoadMalformed_Aborts ==
    /\ pc = "load_loop" /\ i < Len(file)
    /\ StrippedLine(i) # <<>>
    /\ ~SkipsLine(i, skip)
    /\ ~LimitReached(limit, entries_processed)
    /\ ~JsonLoads(StrippedLine(i)).ok
    /\ warnings' = warnings \cup {i}
    /\ pc' = "loaded"
    /\ UNCHANGED <<path_exists, file, skip, limit, i, data, entries_processed, caseVars, saveVars, err, handleVars>>

\* a variant of LoadMalformed in which the failed line counts as processed
LoadMalformed_Counts ==
    /\ pc = "load_loop" /\ i < Len(file)
    /\ StrippedLine(i) # <<>>
    /\ ~SkipsLine(i, skip)
    /\ ~LimitReached(limit, entries_processed)
    /\ ~JsonLoads(StrippedLine(i)).ok
    /\ warnings' = warnings \cup {i}
    /\ entries_processed' = entries_processed + 1
    /\ i' = i + 1
    /\ UNCHANGED <<path_exists, file, skip, limit, data, caseVars, saveVars, pc, err, handleVars>>

\* except json.JSONDecodeError: logger.warning(...); continue
LoadMalformed ==
    /\ pc = "load_loop" /\ i < Len(file)
    /\ StrippedLine(i) # <<>>
    /\ ~SkipsLine(i, skip)
    /\ ~LimitReached(limit, entries_processed)
    /\ ~JsonLoads(StrippedLine(i)).ok
    /\ warnings' = warnings \cup {i}
    /\ i' = i + 1
    /\ UNCHANGED <<path_exists, file, skip, limit, data, entries_processed, caseVars, saveVars, pc, err, handleVars>>

NextLoad ==
    \/ LoadNotFound
    \/ LoadOpen
    \/ LoadEOF
    \/ LoadBlank
    \/ LoadSkipped
    \/ LoadBreak
    \/ LoadAppend
    \/ LoadMalformed

SpecLoad == InitLoad /\ [][NextLoad]_vars


-----------------------------------------------------------------------------
(* process_case(example)                                                   *)

Key_content == <<"c", "o", "n", "t", "e", "n", "t">>
Key_markdown_content == <<"m", "a", "r", "k", "d", "o", "w", "n", "_", "c", "o", "n", "t", "e", "n", "t">>
Key_reference_markers == <<"r", "e", "f", "e", "r", "e", "n", "c", "e", "_", "m", "a", "r", "k", "e", "r", "s">>
Key_end == <<"e", "n", "d">>
Key_line == <<"l", "i", "n", "e">>
Key_start == <<"s", "t", "a", "r", "t">>
Key_text == <<"t", "e", "x", "t">>
Key_references == <<"r", "e", "f", "e", "r", "e", "n", "c", "e", "s">>
Key_ref_type == <<"r", "e", "f", "_", "t", "y", "p", "e">>
Key_book == <<"b", "o", "o", "k">>
Key_section == <<"s", "e", "c", "t", "i", "o", "n">>

\* "[]"
EmptyListText == PyStr(<<"[", "]">>)
\* "unknown"
UnknownText == PyStr(<<"u", "n", "k", "n", "o", "w", "n">>)

\* The values a record's content key can hold: falsy ones of every JSON type,
\* HTML text, and truthy values that are not text.
FalsyContents == {PyStr(<<>>), PyNone, PyInt(0), PyBool(FALSE), PyList(<<>>), PyDict(<<>>)}
TextContents == {PyStr(<<"<", "b", ">", "x">>), PyStr(<<" ", "x", " ">>)}
OtherContents == {PyInt(5), PyBool(TRUE), PyList(<<PyInt(1)>>), PyDict(<< <<Key_id, PyInt(1)>> >>)}
Contents == FalsyContents \cup TextContents \cup OtherContents

\* The records handed to process_case: an id, possibly a content, and possibly the
\* two enrichment fields of an earlier run.
Examples ==
    LET base == PyDict(<< <<Key_id, PyInt(1)>> >>)
        old == <<  <<Key_markdown_content, PyStr(<<"o", "l", "d">>)>>,
                   <<Key_reference_markers, PyStr(<<"[", "0", "]">>)>> >>
        withContent == {base} \cup {PyDict(base.v \o << <<Key_content, c>> >>) : c \in Contents}
    IN  withContent \cup {PyDict(e.v \o old) : e \in withContent}

\* Outcomes of the Markdown conversion md(content, heading_style="ATX", bullets="-",
\* strip=[...]): it raises, or it returns one of these texts.
MdTexts == {<<>>, <<"x">>, <<"\n", "#", " ", "x", "\n", "\n">>, <<"\"", "x">>}

\* the texts explored when process_case runs inside handle
HandleMdTexts == {<<"\n", "#", " ", "x", "\n", "\n">>}

Raises == [raises |-> TRUE, value |-> PyNone]
Returns(x) == [raises |-> FALSE, value |-> x]

\* the conversion reads the text through len() and `in`: an int or a bool has neither
MdOutcomes(content) ==
    IF content.t \in {"int", "bool"} THEN {Raises}
    ELSE {Raises} \cup {Returns(PyStr(m)) : m \in (IF entry = "operation" THEN MdTexts ELSE HandleMdTexts)}

\* Reference objects: has_dict says whether the object has a __dict__, has_ref_type
\* whether it exposes ref_type, dict holds the items of its __dict__.
Ref_law ==
    [has_dict |-> TRUE, has_ref_type |-> TRUE,
     ref_type |-> PyObject(<<"R", "e", "f", "T", "y", "p", "e", ".", "L", "A", "W">>),
     dict |-> PyDict(<< <<Key_ref_type, PyObject(<<"R", "e", "f", "T", "y", "p", "e", ".", "L", "A", "W">>)>>,
                        <<Key_book, PyStr(<<"b", "g", "b">>)>>,
                        <<Key_section, PyStr(<<"1">>)>> >>)]
Ref_untyped ==
    [has_dict |-> TRUE, has_ref_type |-> FALSE, ref_type |-> PyNone,
     dict |-> PyDict(<< <<Key_section, PyInt(2)>> >>)]
Ref_unserializable ==
    [has_dict |-> TRUE, has_ref_type |-> TRUE, ref_type |-> PyStr(<<"c", "a", "s", "e">>),
     dict |-> PyDict(<< <<Key_ref_type, PyStr(<<"c", "a", "s", "e">>)>>,
                        <<Key_book, PyObject(<<"o", "b", "j">>)>> >>)]
Ref_slots ==
    [has_dict |-> FALSE, has_ref_type |-> TRUE, ref_type |-> PyStr(<<"l", "a", "w">>),
     dict |-> PyDict(<<>>)]

\* Marker objects: attrs holds the attributes among end, line, start, text that the
\* object exposes, has_references whether it exposes references.
Marker_plain ==
    [attrs |-> PyDict(<< <<Key_start, PyInt(1)>>, <<Key_end, PyInt(3)>>,
                         <<Key_line, PyInt(0)>>, <<Key_text, PyStr(<<"a">>)>> >>),
     has_references |-> FALSE, references |-> <<>>]
Marker_quoted ==
    [attrs |-> PyDict(<< <<Key_text, PyStr(<<"\"", "\\", "\n">>)>>, <<Key_start, PyInt(10)>> >>),
     has_references |-> TRUE, references |-> <<>>]
Marker_law ==
    [attrs |-> PyDict(<< <<Key_start, PyInt(0)>>, <<Key_end, PyInt(2)>> >>),
     has_references |-> TRUE, references |-> <<Ref_law, Ref_untyped>>]
Marker_unserializable ==
    [attrs |-> PyDict(<< <<Key_text, PyStr(<<"b">>)>> >>),
     has_references |-> TRUE, references |-> <<Ref_unserializable>>]
Marker_slots ==
    [attrs |-> PyDict(<<>>),
     has_references |-> TRUE, references |-> <<Ref_slots>>]

Markers == {Marker_plain, Marker_quoted, Marker_law, Marker_unserializable, Marker_slots}

\* Outcomes of ref_extractor.extract(markdown_text): it raises, or it returns
\* (content_with_markers, markers) with up to MaxMarkers markers.
MarkerLists == UNION {[1..n -> Markers] : n \in 0..MaxMarkers}

\* the marker lists explored when process_case runs inside handle
HandleMarkerLists == {<<>>, <<Marker_law>>, <<Marker_unserializable>>, <<Marker_slots>>}

InitCase ==
    /\ example_in \in Examples
    /\ example = example_in
    /\ markdown_text = PyNone
    /\ markers = <<>>
    /\ reference_markers = PyNone
    /\ calls = <<>>
    /\ caught = "none"
    /\ pc = "case_start"
    /\ err = NoError
    /\ IdleLoad /\ IdleSave /\ IdleHandle

\* a variant of HasContent that tests the presence of the key only
HasContent_KeyOnly(ex) == DictHas(ex, Key_content)

\* if "content" in example and example["content"]
HasContent(ex) == DictHas(ex, Key_content) /\ Truthy(DictGet(ex, Key_content))

\* _ref_to_dict(ref); ref.__dict__ raises AttributeError when the object has none
RefConvertible(ref) == ref.has_dict

\* a variant of RefToDict that keeps the type and drops the other attributes
RefToDict_TypeOnly(ref) ==
    PyDict(<< <<Key_ref_type, PyStr(Str(IF ref.has_ref_type THEN ref.ref_type ELSE UnknownText))>> >>)

RefToDict(ref) ==
    PyDict(<< <<Key_ref_type, PyStr(Str(IF ref.has_ref_type THEN ref.ref_type ELSE UnknownText))>> >>
           \o SelectSeq(ref.dict.v, LAMBDA p : p[1] # Key_ref_type))

\* marker.references is used: hasattr(marker, "references") and marker.references
UsesReferences(marker) == marker.has_references /\ Len(marker.references) > 0

\* _marker_to_dict(marker)
MarkerConvertible(marker) ==
    UsesReferences(marker) => \A n \in 1..Len(marker.references) : RefConvertible(marker.references[n])

MarkerToDict(marker) ==
    LET cols == SelectSeq(<<Key_end, Key_line, Key_start, Key_text>>,
                          LAMBDA col : DictHas(marker.attrs, col))
        marker_dict == PyDict([n \in 1..Len(cols) |-> <<cols[n], DictGet(marker.attrs, cols[n])>>])
    IN  IF UsesReferences(marker)
        THEN DictSet(marker_dict, Key_references,
                     PyList([n \in 1..Len(marker.references) |-> RefToDict(marker.references[n])]))
        ELSE DictSet(marker_dict, Key_references, PyList(<<>>))

\* else: example["markdown_content"] = ""; example["reference_markers"] = "[]"
CaseNoContent ==
    /\ pc = "case_start"
    /\ ~HasContent(example)
    /\ example' = DictSet(DictSet(example, Key_markdown_content, PyStr(<<>>)),
                          Key_reference_markers, EmptyListText)
    /\ pc' = "case_returned"
    /\ UNCHANGED <<loadVars, saveVars, example_in, markdown_text, markers, reference_markers, calls, caught, err, handleVars>>

\* markdown_text = md(example["content"], ...);
\* example["markdown_content"] = markdown_text.strip()
CaseConvert ==
    /\ pc = "case_start"
    /\ HasContent(example)
    /\ \E out \in MdOutcomes(DictGet(example, Key_content)) :
        /\ ~out.raises
        /\ markdown_text' = out.value
        /\ example' = DictSet(example, Key_markdown_content, PyStr(Strip(out.value.v)))
    /\ calls' = Append(calls, [fn |-> "md", arg |-> DictGet(example, Key_content)])
    /\ pc' = "case_converted"
    /\ UNCHANGED <<loadVars, saveVars, example_in, markers, reference_markers, caught, err, handleVars>>

\* md(...) raises
CaseConvertRaises ==
    /\ pc = "case_start"
    /\ HasContent(example)
    /\ \E out \in MdOutcomes(DictGet(example, Key_content)) : out.raises
    /\ calls' = Append(calls, [fn |-> "md", arg |-> DictGet(example, Key_content)])
    /\ caught' = "md"
    /\ pc' = "case_except"
    /\ UNCHANGED <<loadVars, saveVars, example_in, example, markdown_text, markers, reference_markers, err, handleVars>>

\* _, markers = self.ref_extractor.extract(markdown_text)
CaseExtract ==
    /\ pc = "case_converted"
    /\ markers' \in (IF entry = "operation" THEN MarkerLists ELSE HandleMarkerLists)
    /\ calls' = Append(calls, [fn |-> "extract", arg |-> markdown_text])
    /\ pc' = "case_extracted"
    /\ UNCHANGED <<loadVars, saveVars, example_in, example, markdown_text, reference_markers, caught, err, handleVars>>

\* extract(...) raises
CaseExtractRaises ==
    /\ pc = "case_converted"
    /\ calls' = Append(calls, [fn |-> "extract", arg |-> markdown_text])
    /\ caught' = "extract"
    /\ pc' = "case_except"
    /\ UNCHANGED <<loadVars, saveVars, example_in, example, markdown_text, markers, reference_markers, err, handleVars>>

\* reference_markers = [_marker_to_dict(marker) for marker in markers]
CaseSerialize ==
    /\ pc = "case_extracted"
    /\ \A n \in 1..Len(markers) : MarkerConvertible(markers[n])
    /\ reference_markers' = PyList([n \in 1..Len(markers) |-> MarkerToDict(markers[n])])
    /\ pc' = "case_serialized"
    /\ UNCHANGED <<loadVars, saveVars, example_in, example, markdown_text, markers, calls, caught, err, handleVars>>

\* _marker_to_dict raises (AttributeError on ref.__dict__)
CaseSerializeRaises ==
    /\ pc = "case_extracted"
    /\ \E n \in 1..Len(markers) : ~MarkerConvertible(markers[n])
    /\ caught' = "serialize"
    /\ pc' = "case_except"
    /\ UNCHANGED <<loadVars, saveVars, example_in, example, markdown_text, markers, reference_markers, calls, err, handleVars>>

\* reference_markers = json.dumps(reference_markers);
\* example["reference_markers"] = reference_markers
CaseDumps ==
    /\ pc = "case_serialized"
    /\ Serializable(reference_markers)
    /\ reference_markers' = PyStr(JsonDumps(reference_markers))
    /\ example' = DictSet(example, Key_reference_markers, reference_markers')
    /\ pc' = "case_returned"
    /\ UNCHANGED <<loadVars, saveVars, example_in, markdown_text, markers, calls, caught, err, handleVars>>

\* json.dumps raises (TypeError: not JSON serializable)
CaseDumpsRaises ==
    /\ pc = "case_serialized"
    /\ ~Serializable(reference_markers)
    /\ caught' = "dumps"
    /\ pc' = "case_except"
    /\ UNCHANGED <<loadVars, saveVars, example_in, example, markdown_text, markers, reference_markers, calls, err, handleVars>>

\* a variant of CaseFallback that returns a fresh record holding the two fields only
CaseFallback_DropsFields ==
    /\ pc = "case_except"
    /\ example' = PyDict(<< <<Key_markdown_content, DictGetDefault(example, Key_content, PyStr(<<>>))>>,
                            <<Key_reference_markers, EmptyListText>> >>)
    /\ pc' = "case_returned"
    /\ UNCHANGED <<loadVars, saveVars, example_in, markdown_text, markers, reference_markers, calls, caught, err, handleVars>>

\* a variant of CaseFallback that leaves a markdown_content already converted in place
CaseFallback_KeepsConverted ==
    /\ pc = "case_except"
    /\ example' = DictSet(IF caught = "md"
                          THEN DictSet(example, Key_markdown_content,
                                       DictGetDefault(example, Key_content, PyStr(<<>>)))
                          ELSE example,
                          Key_reference_markers, EmptyListText)
    /\ pc' = "case_returned"
    /\ UNCHANGED <<loadVars, saveVars, example_in, markdown_text, markers, reference_markers, calls, caught, err, handleVars>>

\* except Exception: example["markdown_content"] = example.get("content", "");
\* example["reference_markers"] = "[]"
CaseFallback ==
    /\ pc = "case_except"
    /\ example' = DictSet(DictSet(example, Key_markdown_content,
                                  DictGetDefault(example, Key_content, PyStr(<<>>))),
                          Key_reference_markers, EmptyListText)
    /\ pc' = "case_returned"
    /\ UNCHANGED <<loadVars, saveVars, example_in, markdown_text, markers, reference_markers, calls, caught, err, handleVars>>

NextCase ==
    \/ CaseNoContent
    \/ CaseConvert
    \/ CaseConvertRaises
    \/ CaseExtract
    \/ CaseExtractRaises
    \/ CaseSerialize
    \/ CaseSerializeRaises
    \/ CaseDumps
    \/ CaseDumpsRaises
    \/ CaseFallback

SpecCase == InitCase /\ [][NextCase]_vars

-----------------------------------------------------------------------------
(* _save_dataset(dataset, args) and the four sink adapters                 *)

Fmt_hf_hub == <<"h", "f", "_", "h", "u", "b">>
Fmt_jsonl == <<"j", "s", "o", "n", "l">>
Fmt_parquet == <<"p", "a", "r", "q", "u", "e", "t">>
Fmt_hf_disk == <<"h", "f", "_", "d", "i", "s", "k">>

\* The format values handed to _save_dataset: the four choices, other spellings of
\* them, and values that are none of them.
Formats ==
    {Fmt_hf_hub, Fmt_jsonl, Fmt_parquet, Fmt_hf_disk,
     <<"H", "F", "_", "H", "U", "B">>, <<"J", "S", "O", "N", "L">>,
     <<"P", "a", "r", "q", "u", "e", "t">>, <<"H", "f", "_", "D", "i", "s", "k">>,
     <<"c", "s", "v">>, <<"C", "S", "V">>, <<"j", "s", "o", "n">>, <<>>}

ConfigNames == {PyNone, PyStr(<<>>), PyStr(<<"c", "f", "g">>)}
Splits == {PyStr(<<"t", "r", "a", "i", "n">>), PyStr(<<"t", "e", "s", "t">>)}
Outputs == {PyStr(<<"o", "u", "t">>)}
Datasets == {<<RecordOfLine(1)>>, <<RecordOfLine(1), RecordOfLine(2)>>}

InitSave ==
    /\ args \in [format : {PyStr(f) : f \in Formats}, config_name : ConfigNames,
                 output : Outputs, split : Splits, private : {PyBool(FALSE), PyBool(TRUE)}]
    /\ dataset \in Datasets
    /\ output_format = <<>>
    /\ sink_calls = <<>>
    /\ pc = "save_start"
    /\ err = NoError
    /\ IdleLoad /\ IdleCase /\ IdleHandle

\* a variant of NeedsConfigName that validates the hub format only
NeedsConfigName_HubOnly(fmt) == fmt = Fmt_hf_hub

\* output_format in ("hf_hub", "hf_disk")
NeedsConfigName(fmt) == fmt \in {Fmt_hf_hub, Fmt_hf_disk}

\* if output_format in ("hf_hub", "hf_disk") and not args.config_name
ConfigNameMissing(a) == NeedsConfigName(Lower(a.format.v)) /\ ~Truthy(a.config_name)

\* dataset.push_to_hub(output, config_name=config_name, split=split, private=private)
PushToHub(ds, a) ==
    [adapter |-> "push_to_hub", dataset |-> ds, target |-> a.output,
     config_name |-> a.config_name, split |-> a.split, private |-> a.private]

\* dataset.to_json(output)
ToJson(ds, a) ==
    [adapter |-> "to_json", dataset |-> ds, target |-> a.output,
     config_name |-> PyNone, split |-> PyNone, private |-> PyNone]

\* dataset.to_parquet(output)
ToParquet(ds, a) ==
    [adapter |-> "to_parquet", dataset |-> ds, target |-> a.output,
     config_name |-> PyNone, split |-> PyNone, private |-> PyNone]

\* a variant of SaveToDiskCall that saves at the output root whatever the config_name
SaveToDiskCall_AtRoot(ds, a) ==
    [adapter |-> "save_to_disk", dataset |-> ds, target |-> a.output,
     config_name |-> PyNone, split |-> a.split, private |-> PyNone]

\* DatasetDict({split: dataset}).save_to_disk(f"{output}/{config_name}") when
\* config_name is given, DatasetDict({split: dataset}).save_to_disk(output) otherwise
SaveToDiskCall(ds, a) ==
    [adapter |-> "save_to_disk", dataset |-> ds,
     target |-> IF Truthy(a.config_name)
                THEN PyStr(a.output.v \o <<"/">> \o a.config_name.v)
                ELSE a.output,
     config_name |-> PyNone, split |-> a.split, private |-> PyNone]

\* the adapter call is made; it returns, or it raises and the exception propagates
Invoke(call) ==
    /\ sink_calls' = Append(sink_calls, call)
    /\ \E raises \in BOOLEAN :
         IF raises
         THEN pc' = "save_raised" /\ err' = SinkError
         ELSE pc' = "save_returned" /\ err' = NoError

\* raise ValueError(f"--config-name is required for {output_format} format")
SaveConfigNameMissing ==
    /\ pc = "save_start"
    /\ output_format' = Lower(args.format.v)
    /\ ConfigNameMissing(args)
    /\ err' = ConfigNameRequired(output_format')
    /\ pc' = "save_raised"
    /\ UNCHANGED <<loadVars, caseVars, args, dataset, sink_calls, handleVars>>

\* if output_format == "hf_hub": self._save_to_hub(...)
SaveToHub ==
    /\ pc = "save_start"
    /\ output_format' = Lower(args.format.v)
    /\ ~ConfigNameMissing(args)
    /\ output_format' = Fmt_hf_hub
    /\ Invoke(PushToHub(dataset, args))
    /\ UNCHANGED <<loadVars, caseVars, args, dataset, handleVars>>

\* elif output_format == "jsonl": self._save_to_jsonl(...)
SaveToJsonl ==
    /\ pc = "save_start"
    /\ output_format' = Lower(args.format.v)
    /\ ~ConfigNameMissing(args)
    /\ output_format' = Fmt_jsonl
    /\ Invoke(ToJson(dataset, args))
    /\ UNCHANGED <<loadVars, caseVars, args, dataset, handleVars>>

\* elif output_format == "parquet": self._save_to_parquet(...)
SaveToParquet ==
    /\ pc = "save_start"
    /\ output_format' = Lower(args.format.v)
    /\ ~ConfigNameMissing(args)
    /\ output_format' = Fmt_parquet
    /\ Invoke(ToParquet(dataset, args))
    /\ UNCHANGED <<loadVars, caseVars, args, dataset, handleVars>>

\* elif output_format == "hf_disk": self._save_to_disk(...)
SaveToDisk ==
    /\ pc = "save_start"
    /\ output_format' = Lower(args.format.v)
    /\ ~ConfigNameMissing(args)
    /\ output_format' = Fmt_hf_disk
    /\ Invoke(SaveToDiskCall(dataset, args))
    /\ UNCHANGED <<loadVars, caseVars, args, dataset, handleVars>>

\* else: raise ValueError(f"Unsupported output format: {output_format}")
SaveUnsupported ==
    /\ pc = "save_start"
    /\ output_format' = Lower(args.format.v)
    /\ ~ConfigNameMissing(args)
    /\ output_format' \notin {Fmt_hf_hub, Fmt_jsonl, Fmt_parquet, Fmt_hf_disk}
    /\ err' = UnsupportedFormat(output_format')
    /\ pc' = "save_raised"
    /\ UNCHANGED <<loadVars, caseVars, args, dataset, sink_calls, handleVars>>

NextSave ==
    \/ SaveConfigNameMissing
    \/ SaveToHub
    \/ SaveToJsonl
    \/ SaveToParquet
    \/ SaveToDisk
    \/ SaveUnsupported

SpecSave == InitSave /\ [][NextSave]_vars

-----------------------------------------------------------------------------
(* handle(args) and main()                                                 *)

\* choices=["hf_hub", "jsonl", "parquet", "hf_disk"]
FormatChoices == {Fmt_hf_hub, Fmt_jsonl, Fmt_parquet, Fmt_hf_disk}

\* The inputs of a run of handle: files of up to MaxRows lines, each line a record
\* without content, a record with content, a malformed line or a blank line.
HandleFiles ==
    UNION {{[k \in 1..n |-> LineText(kinds[k], k)] : kinds \in [1..n -> LineKinds \cup {"content"}]} : n \in 0..MaxRows}
HandleSkips == {0, 1}
HandleLimits == {PyNone, PyInt(1)}
HandleFormats == FormatChoices \cup {<<"c", "s", "v">>}
HandleConfigNames == {PyNone, PyStr(<<"c", "f", "g">>)}

\* the documents main and handle write
NoValidData == [text |-> "No valid data found in input file", error |-> NoError]
ErrorDuringConversion(e) == [text |-> "Error during conversion", error |-> e]
\* print(f"Error: {e}", file=sys.stderr)
ErrorLine(e) == [kind |-> "line", text |-> "Error", error |-> e]
\* the traceback of an exception that leaves main
Traceback(e) == [kind |-> "traceback", text |-> "Traceback", error |-> e]
\* the usage text and error of parser.parse_args()
UsageError == [kind |-> "usage", text |-> "invalid choice", error |-> NoError]

InitHandle ==
    /\ entry \in {"handle", "main"}
    /\ args \in [format : {PyStr(f) : f \in HandleFormats}, config_name : HandleConfigNames,
                 output : Outputs, split : {PyStr(<<"t", "r", "a", "i", "n">>)},
                 private : {PyBool(FALSE)},
                 no_process : {PyBool(FALSE), PyBool(TRUE)},
                 debug : {PyBool(FALSE), PyBool(TRUE)}]
    /\ entry = "handle" => args.debug = PyBool(FALSE)
    /\ path_exists \in BOOLEAN
    /\ file \in (IF path_exists THEN HandleFiles ELSE {<<>>})
    /\ skip \in HandleSkips
    /\ limit \in HandleLimits
    /\ i = 0 /\ data = <<>> /\ entries_processed = 0 /\ warnings = {}
    /\ IdleCase
    /\ output_format = <<>> /\ dataset = <<>> /\ sink_calls = <<>>
    /\ log = <<>> /\ ds_calls = <<>> /\ pending = {} /\ row = 0 /\ mapped = <<>>
    /\ stderr = <<>> /\ exit_status = PyNone
    /\ pc = (IF entry = "main" THEN "main_start" ELSE "handle_start")
    /\ err = NoError

InHandle == entry \in {"handle", "main"}

\* a variant of NoData that lets an empty list through
NoData_Never(d) == FALSE

\* if not data:
NoData(d) == d = <<>>

\* a variant of DebugMode in which main never re-raises
DebugMode_Never(a) == FALSE

\* if args.debug:
DebugMode(a) == Truthy(a.debug)

\* a variant of Reraised in which handle wraps the exception it caught
Reraised_Wrapped(e) == [type |-> "RuntimeError", format |-> e.format]

\* the bare `raise` of handle's except clause raises the exception it caught
Reraised(e) == e

\* a variant of ProcessingDisabled that ignores --no-process
ProcessingDisabled_Never(a) == FALSE

\* if not args.no_process: (the negation of its condition)
ProcessingDisabled(a) == Truthy(a.no_process)

\* args = parser.parse_args(): a --format outside the choices ends the run with status 2
MainParseRejects ==
    /\ pc = "main_start"
    /\ args.format.v \notin FormatChoices
    /\ stderr' = Append(stderr, UsageError)
    /\ exit_status' = PyInt(2)
    /\ pc' = "main_exited"
    /\ UNCHANGED <<loadVars, caseVars, saveVars, entry, log, ds_calls, pending, row, mapped, err>>

\* command.handle(args)
MainCallsHandle ==
    /\ pc = "main_start"
    /\ args.format.v \in FormatChoices
    /\ pc' = "handle_start"
    /\ UNCHANGED <<loadVars, caseVars, saveVars, handleVars, err>>

\* data = self._load_jsonl_data(args.input_file, args.skip, args.limit)
HandleLoads ==
    /\ pc = "handle_start"
    /\ pc' = "load_start"
    /\ UNCHANGED <<loadVars, caseVars, saveVars, handleVars, err>>

\* a variant of HandleNoData that validates the sink configuration before returning
HandleNoData_ValidatesFirst ==
    /\ InHandle /\ pc = "loaded"
    /\ NoData(data)
    /\ IF ConfigNameMissing(args)
       THEN /\ err' = ConfigNameRequired(Lower(args.format.v))
            /\ pc' = "save_raised"
            /\ log' = log
       ELSE /\ err' = err
            /\ pc' = "handle_returned"
            /\ log' = Append(log, NoValidData)
    /\ UNCHANGED <<loadVars, caseVars, saveVars, entry, ds_calls, pending, row, mapped, stderr, exit_status>>

\* if not data: logger.error("No valid data found in input file"); return
HandleNoData ==
    /\ InHandle /\ pc = "loaded"
    /\ NoData(data)
    /\ log' = Append(log, NoValidData)
    /\ pc' = "handle_returned"
    /\ UNCHANGED <<loadVars, caseVars, saveVars, entry, ds_calls, pending, row, mapped, stderr, exit_status, err>>

\* dataset = Dataset.from_list(data)
HandleCreatesDataset ==
    /\ InHandle /\ pc = "loaded"
    /\ ~NoData(data)
    /\ dataset' = data
    /\ ds_calls' = Append(ds_calls, "from_list")
    /\ pc' = "dataset_created"
    /\ UNCHANGED <<loadVars, caseVars, args, output_format, sink_calls,
                   entry, log, pending, row, mapped, stderr, exit_status, err>>

\* if not args.no_process: (skipped)
HandleSkipsProcessing ==
    /\ pc = "dataset_created"
    /\ ProcessingDisabled(args)
    /\ pc' = "save_start"
    /\ UNCHANGED <<loadVars, caseVars, saveVars, handleVars, err>>

\* dataset = dataset.map(self.process_case, batched=False, ...): the map starts
HandleMaps ==
    /\ pc = "dataset_created"
    /\ ~ProcessingDisabled(args)
    /\ ds_calls' = Append(ds_calls, "map")
    /\ pending' = 1..Len(dataset)
    /\ mapped' = dataset
    /\ pc' = "map"
    /\ UNCHANGED <<loadVars, caseVars, saveVars, entry, log, row, stderr, exit_status, err>>

\* Dataset.map hands a pending row to process_case. A sequential map takes the rows
\* in index order; the order is left open here, so that the rows may as well be
\* enriched by independent workers in any order of completion.
MapRow ==
    /\ pc = "map"
    /\ \E k \in pending :
         /\ row' = k
         /\ example_in' = dataset[k]
         /\ example' = dataset[k]
    /\ markdown_text' = PyNone /\ markers' = <<>> /\ reference_markers' = PyNone
    /\ calls' = <<>> /\ caught' = "none"
    /\ pc' = "case_start"
    /\ UNCHANGED <<loadVars, saveVars, entry, log, ds_calls, pending, mapped, stderr, exit_status, err>>

\* a variant of ResultIndex that stores the rows in their order of completion
ResultIndex_CompletionOrder(k, done) == done + 1

\* the place of the new dataset where the row returned by process_case is stored
ResultIndex(k, done) == k

\* Dataset.map stores the row returned by process_case at the index of its input row
MapCollect ==
    /\ InHandle /\ pc = "case_returned"
    /\ mapped' = [mapped EXCEPT ![ResultIndex(row, Len(dataset) - Cardinality(pending))] = example]
    /\ pending' = pending \ {row}
    /\ example_in' = PyNone /\ example' = PyNone
    /\ markdown_text' = PyNone /\ markers' = <<>> /\ reference_markers' = PyNone
    /\ calls' = <<>> /\ caught' = "none"
    /\ pc' = "map"
    /\ UNCHANGED <<loadVars, saveVars, entry, log, ds_calls, row, stderr, exit_status, err>>

\* dataset.map returns the new dataset, which handle binds to `dataset`
MapDone ==
    /\ pc = "map"
    /\ pending = {}
    /\ dataset' = mapped
    /\ pc' = "save_start"
    /\ UNCHANGED <<loadVars, caseVars, args, output_format, sink_calls, handleVars, err>>

\* self._save_dataset(dataset, args) has returned: handle returns
HandleReturns ==
    /\ InHandle /\ pc = "save_returned"
    /\ pc' = "handle_returned"
    /\ UNCHANGED <<loadVars, caseVars, saveVars, handleVars, err>>

\* except Exception as e: logger.error(f"Error during conversion: {e}"); raise
HandleReraises ==
    /\ InHandle /\ pc \in {"load_raised", "save_raised"}
    /\ log' = Append(log, ErrorDuringConversion(err))
    /\ err' = Reraised(err)
    /\ pc' = "handle_raised"
    /\ UNCHANGED <<loadVars, caseVars, saveVars, entry, ds_calls, pending, row, mapped, stderr, exit_status>>

\* command.handle(args); return 0
MainReturnsZero ==
    /\ entry = "main" /\ pc = "handle_returned"
    /\ exit_status' = PyInt(0)
    /\ pc' = "main_returned"
    /\ UNCHANGED <<loadVars, caseVars, saveVars, entry, log, ds_calls, pending, row, mapped, stderr, err>>

\* except Exception as e: print(f"Error: {e}", file=sys.stderr); return 1
MainPrintsError ==
    /\ entry = "main" /\ pc = "handle_raised"
    /\ ~DebugMode(args)
    /\ stderr' = Append(stderr, ErrorLine(err))
    /\ exit_status' = PyInt(1)
    /\ err' = NoError
    /\ pc' = "main_returned"
    /\ UNCHANGED <<loadVars, caseVars, saveVars, entry, log, ds_calls, pending, row, mapped>>

\* except Exception as e: if args.debug: raise -- the exception leaves main, and
\* sys.exit(main()) ends with the traceback and the status of an uncaught exception
MainReraises ==
    /\ entry = "main" /\ pc = "handle_raised"
    /\ DebugMode(args)
    /\ stderr' = Append(stderr, Traceback(err))
    /\ exit_status' = PyInt(1)
    /\ pc' = "main_raised"
    /\ UNCHANGED <<loadVars, caseVars, saveVars, entry, log, ds_calls, pending, row, mapped, err>>

NextHandle ==
    \/ MainParseRejects
    \/ MainCallsHandle
    \/ HandleLoads
    \/ NextLoad
    \/ HandleNoData
    \/ HandleCreatesDataset
    \/ HandleSkipsProcessing
    \/ HandleMaps
    \/ MapRow
    \/ NextCase
    \/ MapCollect
    \/ MapDone
    \/ NextSave
    \/ HandleReturns
    \/ HandleReraises
    \/ MainReturnsZero
    \/ MainPrintsError
    \/ MainReraises

SpecHandle == InitHandle /\ [][NextHandle]_vars

-----------------------------------------------------------------------------
(* All entries together: an operation alone, handle, or main, as chosen by *)
(* the initial state                                                        *)

Init == InitLoad \/ InitCase \/ InitSave \/ InitHandle

Next == NextHandle

Spec == Init /\ [][Next]_vars

-----------------------------------------------------------------------------
(* Properties of _load_jsonl_data                                          *)

\* the line with raw index idx (counted from 0) is blank / parses as JSON
IsBlankLine(idx) == Strip(file[idx + 1]) = <<>>
IsValidLine(idx) == JsonLoads(Strip(file[idx + 1])).ok
IsMalformedLine(idx) == ~IsBlankLine(idx) /\ ~IsValidLine(idx)

RawIndices == 0..(Len(file) - 1)

total_valid_records == Cardinality({idx \in RawIndices : IsValidLine(idx)})

\* the number of lines at raw index >= sk that parse as JSON
ValidFrom(sk) == Cardinality({idx \in RawIndices : idx >= sk /\ IsValidLine(idx)})

\* limit is a positive int
LimitPositive == limit.t = "int" /\ limit.v > 0
\* limit is not given
LimitAbsent == limit.t = "NoneType"

\* C1 (as stated): for skip >= 0 and limit > 0 the number of records returned is
\* max(0, min(limit, total_valid_records - skip)).
C1_LenByRecordCount ==
    (pc = "loaded" /\ LimitPositive) =>
        Len(data) = Max(0, Min(limit.v, total_valid_records - skip))

\* C1 (amended): for skip >= 0 and limit > 0 the number of records returned is
\* min(limit, v), v being the number of lines at raw index >= skip that parse as JSON.
C1_LenByRawIndex ==
    (pc = "loaded" /\ LimitPositive) =>
        Len(data) = Min(limit.v, ValidFrom(skip))

\* C1 witness: a load has returned, under a positive limit, a number of records that
\* the raw-index count gives and the record count does not.
C1_Witness ==
    /\ pc = "loaded" /\ LimitPositive
    /\ \E idx \in RawIndices : idx < skip /\ ~IsValidLine(idx)
    /\ Len(data) > 0
    /\ Len(data) = Min(limit.v, ValidFrom(skip))
    /\ Len(data) # Max(0, Min(limit.v, total_valid_records - skip))

\* the parsed lines at raw index >= idx that parse as JSON, in input order
RECURSIVE ParsedFrom(_)
ParsedFrom(idx) ==
    IF idx >= Len(file) THEN <<>>
    ELSE (IF IsValidLine(idx) THEN <<JsonLoads(Strip(file[idx + 1])).val>> ELSE <<>>)
         \o ParsedFrom(idx + 1)

\* C2: skip is evaluated against the raw line index (a malformed or blank line below
\* skip uses up a skip position), a malformed line contributes no record and does not
\* count toward limit, and loading goes on with the line after it: the records
\* returned are the valid lines at raw index >= skip, in order, cut at limit.
C2_SkipCountsRawLines ==
    (pc = "loaded" /\ (LimitPositive \/ LimitAbsent)) =>
        /\ data = (IF LimitPositive
                   THEN SubSeq(ParsedFrom(skip), 1, Min(limit.v, Len(ParsedFrom(skip))))
                   ELSE ParsedFrom(skip))
        /\ entries_processed = Len(data)
        /\ \A idx \in warnings : IsMalformedLine(idx) /\ idx >= skip

\* C2 witness: a load has returned with a malformed and a blank line below skip, and
\* with a malformed line at or after skip that was reported and followed by a valid
\* line whose record is the last one returned, the limit being reached.
C2_Witness ==
    /\ pc = "loaded" /\ LimitPositive /\ Len(data) = limit.v
    /\ \E a, b \in RawIndices : a < skip /\ b < skip /\ IsMalformedLine(a) /\ IsBlankLine(b)
    /\ \E m \in warnings : \E k \in RawIndices :
            k > m /\ IsValidLine(k) /\ data[Len(data)] = RecordOfLine(k + 1)

\* every line of the file is a non-blank line that parses as JSON
AllLinesValid == \A idx \in RawIndices : IsValidLine(idx)

FiveLinesOneMalformed ==
    /\ Len(file) = 5
    /\ \A idx \in RawIndices : ~IsBlankLine(idx)
    /\ Cardinality({idx \in RawIndices : IsMalformedLine(idx)}) = 1

\* C4 (as stated): for 5 lines with one malformed line at any position, skip=1 and
\* limit=2 return exactly 2 records, the first being the record of line 3.
C4_FirstIsLineThree ==
    (pc = "loaded" /\ FiveLinesOneMalformed /\ skip = 1 /\ limit = PyInt(2)) =>
        /\ Len(data) = 2
        /\ data[1] = RecordOfLine(3)

\* C4 (amended): for 5 lines with one malformed line, skip=1 and limit=2 return
\* exactly 2 records; the first is the record of line 3 when the malformed line is
\* line 2, and the record of line 2 otherwise.
C4_FirstIsFirstValidAfterSkip ==
    (pc = "loaded" /\ FiveLinesOneMalformed /\ skip = 1 /\ limit = PyInt(2)) =>
        /\ Len(data) = 2
        /\ data[1] = (IF IsMalformedLine(1) THEN RecordOfLine(3) ELSE RecordOfLine(2))

\* C4 witness: the scenario has run with the malformed line in second position and
\* has returned the records of lines 3 and 4.
C4_Witness ==
    /\ pc = "loaded" /\ FiveLinesOneMalformed /\ skip = 1 /\ limit = PyInt(2)
    /\ IsMalformedLine(1)
    /\ data = <<RecordOfLine(3), RecordOfLine(4)>>


-----------------------------------------------------------------------------
(* Properties of process_case                                              *)

EnrichmentKeys == {Key_markdown_content, Key_reference_markers}

\* the content key of record ex is absent or holds an empty / falsy value
ContentAbsentOrFalsy(ex) ==
    \/ ~DictHas(ex, Key_content)
    \/ DictGet(ex, Key_content) \in FalsyContents

\* C5: on every path of process_case the record returned has every key of the input
\* record, and every key other than markdown_content and reference_markers keeps the
\* value it had.
C5_EnrichmentIsAdditive ==
    pc = "case_returned" =>
        \A k \in DictKeys(example_in) :
            /\ DictHas(example, k)
            /\ k \notin EnrichmentKeys => DictGet(example, k) = DictGet(example_in, k)

\* C5 witness: a record that carried an id, a content and the two fields of an earlier
\* run has come back from the failure path with its enrichment fields rewritten.
C5_Witness ==
    /\ pc = "case_returned" /\ caught # "none"
    /\ {Key_id, Key_content} \cup EnrichmentKeys \subseteq DictKeys(example_in)
    /\ DictKeys(example) = DictKeys(example_in)
    /\ DictGet(example, Key_markdown_content) # DictGet(example_in, Key_markdown_content)

\* C6: process_case never raises; when the conversion, the extraction, the marker
\* serialization or the JSON encoding raises, the exception is caught, the record is
\* returned with its content unchanged, with markdown_content equal to the raw content
\* (also when the conversion had succeeded) and with reference_markers "[]".
C6_FailureFallsBack ==
    /\ err = NoError
    /\ caught # "none" => pc \in {"case_except", "case_returned"}
    /\ pc = "case_except" => ENABLED CaseFallback
    /\ (pc = "case_returned" /\ caught # "none") =>
          /\ DictGet(example, Key_content) = DictGet(example_in, Key_content)
          /\ DictGet(example, Key_markdown_content) = DictGet(example_in, Key_content)
          /\ DictGet(example, Key_reference_markers) = EmptyListText

\* C6 witness: the JSON encoding has raised after a conversion that had stored a
\* markdown_content different from the content, and the record has come back with
\* the raw content as markdown_content.
C6_Witness ==
    /\ pc = "case_returned" /\ caught = "dumps"
    /\ PyStr(Strip(markdown_text.v)) # DictGet(example_in, Key_content)
    /\ DictGet(example, Key_markdown_content) = DictGet(example_in, Key_content)
    /\ DictGet(example, Key_reference_markers) = EmptyListText

\* C7: for a record whose content is absent or empty/falsy, process_case returns the
\* record with markdown_content "" and reference_markers "[]" and invokes neither the
\* Markdown conversion nor the reference extraction.
C7_NoContentDefaults ==
    ContentAbsentOrFalsy(example_in) =>
        /\ calls = <<>>
        /\ pc \in {"case_start", "case_returned"}
        /\ pc = "case_start" => ENABLED CaseNoContent
        /\ pc = "case_returned" =>
              /\ DictGet(example, Key_markdown_content) = PyStr(<<>>)
              /\ DictGet(example, Key_reference_markers) = EmptyListText

\* C7 witness: a record whose content is present but falsy (the number 0) and that
\* carried an old markdown_content has been returned with the defaults.
C7_Witness ==
    /\ pc = "case_returned"
    /\ DictHas(example_in, Key_content) /\ DictGet(example_in, Key_content) = PyInt(0)
    /\ DictHas(example_in, Key_markdown_content)
    /\ DictGet(example, Key_markdown_content) = PyStr(<<>>)
    /\ calls = <<>>

\* x is a str holding the JSON encoding of a list
IsJsonListText(x) == x.t = "str" /\ JsonLoads(x.v).ok /\ JsonLoads(x.v).val.t = "list"

\* C8: on every path of process_case the reference_markers of the record returned is
\* a string that is the JSON encoding of a list.
C8_ReferenceMarkersIsJsonList ==
    pc = "case_returned" =>
        /\ DictHas(example, Key_reference_markers)
        /\ IsJsonListText(DictGet(example, Key_reference_markers))

\* C8 witness: the success path has returned the encoding of two markers, one with
\* a text that needs escaping and one with references, and it decodes to a list of 2.
C8_Witness ==
    /\ pc = "case_returned" /\ caught = "none" /\ HasContent(example_in)
    /\ markers = <<Marker_quoted, Marker_law>>
    /\ IsJsonListText(DictGet(example, Key_reference_markers))
    /\ Len(JsonLoads(DictGet(example, Key_reference_markers).v).val.v) = 2


-----------------------------------------------------------------------------
(* Properties of _save_dataset                                             *)

SupportedFormats == {Fmt_hf_hub, Fmt_jsonl, Fmt_parquet, Fmt_hf_disk}

\* config_name is absent or empty
ConfigNameAbsentOrEmpty == args.config_name \in {PyNone, PyStr(<<>>)}

\* C9: when format is hf_hub or hf_disk and config_name is absent or empty,
\* _save_dataset raises the configuration error naming that format, and no sink
\* adapter has been invoked when the error is raised.
C9_ConfigNameRequired ==
    (args.format.v \in {Fmt_hf_hub, Fmt_hf_disk} /\ ConfigNameAbsentOrEmpty) =>
        /\ sink_calls = <<>>
        /\ pc \in {"save_start", "save_raised"}
        /\ pc = "save_start" => ENABLED SaveConfigNameMissing
        /\ pc = "save_raised" => err = ConfigNameRequired(args.format.v)

\* C9 witness: hf_disk with an empty config_name has raised the configuration error
\* naming hf_disk, with no adapter invoked.
C9_Witness ==
    /\ pc = "save_raised"
    /\ args.format.v = Fmt_hf_disk /\ args.config_name = PyStr(<<>>)
    /\ err = ConfigNameRequired(Fmt_hf_disk)
    /\ sink_calls = <<>>

\* C10 (as stated): for any format value that is not one of the four exact strings,
\* differently-cased spellings included, _save_dataset raises the unsupported-format
\* error and invokes no sink adapter.
C10_ExactSpellingOnly ==
    args.format.v \notin SupportedFormats =>
        /\ sink_calls = <<>>
        /\ pc \in {"save_start", "save_raised"}
        /\ pc = "save_raised" => err = UnsupportedFormat(output_format)

\* the four choices spelled with capital letters
CapitalSpellings ==
    {<<"H", "F", "_", "H", "U", "B">>, <<"J", "S", "O", "N", "L">>,
     <<"P", "a", "r", "q", "u", "e", "t">>, <<"H", "f", "_", "D", "i", "s", "k">>}

\* C10 (amended): for any format value whose lower-case form is not one of the four
\* strings, _save_dataset raises the unsupported-format error naming the lower-case
\* form and invokes no sink adapter; a differently-cased spelling of one of the four
\* is handled as that format and never raises the unsupported-format error.
C10_UnsupportedAfterLowercase ==
    /\ Lower(args.format.v) \notin SupportedFormats =>
          /\ sink_calls = <<>>
          /\ pc \in {"save_start", "save_raised"}
          /\ pc = "save_start" => ENABLED SaveUnsupported
          /\ pc = "save_raised" => err = UnsupportedFormat(Lower(args.format.v))
    /\ args.format.v \in CapitalSpellings =>
          /\ err # UnsupportedFormat(output_format)
          /\ (pc = "save_start" /\ ~ConfigNameMissing(args)) =>
                ENABLED (SaveToHub \/ SaveToJsonl \/ SaveToParquet \/ SaveToDisk)

\* C10 witness: the format "CSV" has raised the unsupported-format error naming
\* "csv", with no adapter invoked.
C10_Witness ==
    /\ pc = "save_raised"
    /\ args.format.v = <<"C", "S", "V">>
    /\ err = UnsupportedFormat(<<"c", "s", "v">>)
    /\ sink_calls = <<>>


\* the SinkConfig passes validation: the format is one of the four and, for hf_hub and
\* hf_disk, config_name is present and non-empty
PassesValidation ==
    /\ Lower(args.format.v) \in SupportedFormats
    /\ Lower(args.format.v) \in {Fmt_hf_hub, Fmt_hf_disk} => ~ConfigNameAbsentOrEmpty

\* the one adapter invocation the format asks for, with that format's parameters
ExpectedSinkCall ==
    LET fmt == Lower(args.format.v)
        none == PyNone
    IN  CASE fmt = Fmt_hf_hub ->
               [adapter |-> "push_to_hub", dataset |-> dataset, target |-> args.output,
                config_name |-> args.config_name, split |-> args.split, private |-> args.private]
          [] fmt = Fmt_jsonl ->
               [adapter |-> "to_json", dataset |-> dataset, target |-> args.output,
                config_name |-> none, split |-> none, private |-> none]
          [] fmt = Fmt_parquet ->
               [adapter |-> "to_parquet", dataset |-> dataset, target |-> args.output,
                config_name |-> none, split |-> none, private |-> none]
          [] fmt = Fmt_hf_disk ->
               [adapter |-> "save_to_disk", dataset |-> dataset,
                target |-> PyStr(args.output.v \o <<"/">> \o args.config_name.v),
                config_name |-> none, split |-> args.split, private |-> none]

\* C11: for every SinkConfig that passes validation _save_dataset invokes exactly one
\* sink adapter, once: the one selected by format, with that format's parameters
\* (hf_hub: output, config_name, split, private; jsonl and parquet: output; hf_disk:
\* the {split: dataset} layout at output/config_name); no other adapter is invoked.
C11_ExactlyOneAdapter ==
    (args # PyNone /\ pc \in {"save_start", "save_returned", "save_raised"} /\ PassesValidation) =>
        /\ pc = "save_start" =>
              /\ sink_calls = <<>>
              /\ ENABLED (SaveToHub \/ SaveToJsonl \/ SaveToParquet \/ SaveToDisk)
        /\ pc \in {"save_returned", "save_raised"} => sink_calls = <<ExpectedSinkCall>>

\* C11 witness: hf_disk with config_name "cfg" and split "test" has returned after the
\* single save_to_disk invocation at "out/cfg".
C11_Witness ==
    /\ pc = "save_returned"
    /\ args.format.v = Fmt_hf_disk /\ args.split.v = <<"t", "e", "s", "t">>
    /\ Len(sink_calls) = 1
    /\ sink_calls[1].adapter = "save_to_disk"
    /\ sink_calls[1].target = PyStr(<<"o", "u", "t", "/", "c", "f", "g">>)
    /\ sink_calls[1].split = args.split


-----------------------------------------------------------------------------
(* Properties of handle and main                                           *)

\* the positions of a run of handle at which _load_jsonl_data has not returned yet
BeforeLoaded == {"main_start", "main_exited", "handle_start", "load_start", "load_loop"}

\* _load_jsonl_data has returned, and what it returned is the empty list
LoadedNothing == InHandle /\ path_exists /\ pc \notin BeforeLoaded /\ data = <<>>

\* C12: when _load_jsonl_data returns zero records, handle reports that no valid
\* data was found and returns: no dataset is constructed, process_case is never
\* called and no sink adapter is invoked.
C12_NoDataStopsHandle ==
    LoadedNothing =>
        /\ pc \in {"loaded", "handle_returned", "main_returned"}
        /\ pc # "loaded" => log = <<NoValidData>>
        /\ ds_calls = <<>> /\ dataset = <<>>
        /\ row = 0 /\ calls = <<>>
        /\ sink_calls = <<>>

\* a file of two lines, none of them a record, was read to its end and handle returned
C12_Witness ==
    /\ LoadedNothing /\ pc = "handle_returned"
    /\ Len(file) = 2 /\ skip = 0 /\ i = 2
    /\ warnings # {}
    /\ log = <<NoValidData>>

\* the records of the sink call are the rows of ds
SinkReceived(ds) == Len(sink_calls) = 1 /\ sink_calls[1].dataset = ds

\* row out is row inp with the two fields of process_case set and nothing else changed
IsEnrichmentOf(out, inp) ==
    /\ DictKeys(out) = DictKeys(inp) \cup EnrichmentKeys
    /\ \A key \in DictKeys(inp) \ EnrichmentKeys : DictGet(out, key) = DictGet(inp, key)

\* C13: with no_process set handle never calls process_case and the sink receives
\* the very sequence returned by _load_jsonl_data; without it the sink receives the
\* rows returned by process_case for that sequence, row by row.
C13_NoProcessPassesThrough ==
    (InHandle /\ sink_calls # <<>>) =>
        IF Truthy(args.no_process)
        THEN /\ ds_calls = <<"from_list">> /\ row = 0 /\ calls = <<>>
             /\ SinkReceived(data)
             /\ \A k \in 1..Len(data) : DictKeys(data[k]) \cap EnrichmentKeys = {}
        ELSE /\ ds_calls = <<"from_list", "map">>
             /\ SinkReceived(mapped)
             /\ Len(mapped) = Len(data)
             /\ \A k \in 1..Len(data) : IsEnrichmentOf(mapped[k], data[k])
             /\ mapped # data

\* two records, one of them with content, reached the sink untouched
C13_Witness ==
    /\ InHandle /\ Truthy(args.no_process) /\ pc = "handle_returned"
    /\ Len(data) = 2 /\ DictHas(data[2], Key_content)
    /\ SinkReceived(data)

\* main has finished: it returned, an exception left it, or parse_args ended the run
MainFinished == entry = "main" /\ pc \in {"main_returned", "main_raised", "main_exited"}

\* handle has caught and logged an exception, and LoggedError is that exception
HandleRaised == log # <<>> /\ log[Len(log)].text = "Error during conversion"
LoggedError == log[Len(log)].error

\* the run met a fatal error: handle raised, or the format is not a supported one
FatalError == HandleRaised \/ Lower(args.format.v) \notin SupportedFormats

ExpectedError ==
    IF ~path_exists THEN FileNotFoundError
    ELSE IF data # <<>> /\ ConfigNameMissing(args) THEN ConfigNameRequired(Lower(args.format.v))
    ELSE IF sink_calls # <<>> /\ HandleRaised THEN SinkError
    ELSE NoError

SinkRaised == err = SinkError \/ (HandleRaised /\ LoggedError = SinkError)

\* C15: when the sink adapter raises, that same error leaves _save_dataset and
\* handle (which logs it once), the adapter was invoked once and no other one
\* after it, and the run neither returns from handle nor ends with status 0.
C15_SinkErrorPropagates ==
    (InHandle /\ SinkRaised) =>
        /\ Len(sink_calls) = 1
        /\ sink_calls[1] = ExpectedSinkCall
        /\ pc \in {"save_raised", "handle_raised", "main_raised", "main_returned"}
        /\ pc \in {"save_raised", "handle_raised", "main_raised"} => err = SinkError
        /\ pc # "save_raised" => log = <<ErrorDuringConversion(SinkError)>>
        /\ pc = "main_returned" => stderr = <<ErrorLine(SinkError)>>
        /\ exit_status \in {PyNone, PyInt(1)}

\* handle, called directly, has re-raised the error of to_parquet
C15_Witness ==
    /\ entry = "handle" /\ pc = "handle_raised" /\ err = SinkError
    /\ Len(sink_calls) = 1 /\ sink_calls[1].adapter = "to_parquet"
    /\ log = <<ErrorDuringConversion(SinkError)>>

\* the positions of a run at which a call of process_case is under way
CasePcs == {"case_start", "case_converted", "case_extracted", "case_serialized", "case_except", "case_returned"}

-----------------------------------------------------------------------------
(* Further properties of process_case                                      *)

\* C17: whatever the type of the content value, the markdown_content of the record
\* returned by process_case is a string, on every path.
C17_MarkdownContentIsString ==
    pc = "case_returned" =>
        /\ DictHas(example, Key_markdown_content)
        /\ DictGet(example, Key_markdown_content).t = "str"

\* process_case has returned along its success path: both calls were made and
\* nothing was caught
OnSuccessPath == pc = "case_returned" /\ caught = "none" /\ Len(calls) = 2

\* json.loads of the reference_markers stored in the record returned
DecodedMarkers == JsonLoads(DictGet(example, Key_reference_markers).v).val

PositionKeys == {Key_start, Key_end, Key_line, Key_text}

\* the references a Marker has: none when it exposes no references attribute
ReferencesOf(marker) == IF marker.has_references THEN marker.references ELSE <<>>

\* mapping r is the entry of Reference ref
IsEntryOfReference(r, ref) ==
    /\ r.t = "dict"
    /\ DictKeys(r) = {Key_ref_type} \cup DictKeys(ref.dict)
    /\ DictGet(r, Key_ref_type).t = "str"
    /\ DictGet(r, Key_ref_type) = (IF ref.has_ref_type THEN PyStr(Str(ref.ref_type)) ELSE UnknownText)
    /\ \A key \in DictKeys(ref.dict) \ {Key_ref_type} : DictGet(r, key) = DictGet(ref.dict, key)

\* mapping d is the entry of Marker marker
IsEntryOfMarker(d, marker) ==
    /\ d.t = "dict"
    /\ DictKeys(d) = (DictKeys(marker.attrs) \cap PositionKeys) \cup {Key_references}
    /\ \A col \in DictKeys(marker.attrs) \cap PositionKeys : DictGet(d, col) = DictGet(marker.attrs, col)
    /\ DictGet(d, Key_references).t = "list"
    /\ Len(DictGet(d, Key_references).v) = Len(ReferencesOf(marker))
    /\ \A n \in 1..Len(ReferencesOf(marker)) :
         IsEntryOfReference(DictGet(d, Key_references).v[n], ReferencesOf(marker)[n])

\* C18: on the success path the decoded reference_markers has one mapping per
\* Marker of the extractor, in its order; each has the position attributes the
\* Marker exposes and a references list with one entry per Reference, in order;
\* each entry has a string ref_type ("unknown" when the Reference exposes none) and
\* the other attributes of the Reference.
C18_MarkersStructure ==
    OnSuccessPath =>
        /\ JsonLoads(DictGet(example, Key_reference_markers).v).ok
        /\ DecodedMarkers.t = "list"
        /\ Len(DecodedMarkers.v) = Len(markers)
        /\ \A n \in 1..Len(markers) : IsEntryOfMarker(DecodedMarkers.v[n], markers[n])

\* the extractor returned a Marker without references and one with a typed and an
\* untyped Reference
C18_Witness ==
    /\ OnSuccessPath
    /\ markers = <<Marker_plain, Marker_law>>
    /\ Len(DecodedMarkers.v) = 2

\* C19: on the success path the text handed to ref_extractor.extract is the string
\* stored as markdown_content.
C19_ExtractorReadsStoredText ==
    OnSuccessPath =>
        /\ calls[2].fn = "extract"
        /\ calls[2].arg = DictGet(example, Key_markdown_content)

-----------------------------------------------------------------------------
(* The zero-record check and the validation of the sink configuration      *)

\* the sink configuration is one that _save_dataset rejects
SinkConfigInvalid == ConfigNameMissing(args) \/ Lower(args.format.v) \notin SupportedFormats

\* C20 as stated: with an input that holds no record and an invalid sink
\* configuration, an unsupported format included, main finishes with status 0.
C20_NoRecordsAlwaysStatusZero ==
    (MainFinished /\ path_exists /\ file = <<>> /\ SinkConfigInvalid) => exit_status = PyInt(0)

\* _save_dataset has raised the configuration or the unsupported-format error
ConfigErrorRaised == err.type \in {ConfigNameRequired(<<>>).type, UnsupportedFormat(<<>>).type}

\* C20: when _load_jsonl_data returns no record, handle returns normally without
\* validating the sink configuration, and main, when the format is one of its
\* choices, then finishes with status 0 even without the config_name that hf_hub
\* and hf_disk require. Through main a format outside the choices never reaches
\* handle. The configuration error and the unsupported-format error are raised only
\* when records were loaded and the enrichment of every one of them has finished.
C20_ZeroRecordCheckFirst ==
    /\ (LoadedNothing /\ pc # "loaded") =>
         /\ pc \in {"handle_returned", "main_returned"}
         /\ err = NoError /\ output_format = <<>>
         /\ log = <<NoValidData>>
         /\ pc = "main_returned" => exit_status = PyInt(0) /\ stderr = <<>>
    /\ (entry = "main" /\ args.format.v \notin SupportedFormats) =>
         pc \in {"main_start", "main_exited"} /\ i = 0
    /\ (InHandle /\ ConfigErrorRaised) =>
         /\ SinkConfigInvalid
         /\ pc \notin BeforeLoaded \cup CasePcs \cup {"loaded", "dataset_created", "map"}
         /\ data # <<>> /\ dataset # <<>>
         /\ pending = {} /\ sink_calls = <<>>
         /\ ~Truthy(args.no_process) =>
              \A k \in 1..Len(data) : IsEnrichmentOf(dataset[k], data[k])

\* main was run for hf_hub without a config_name on a file without records, and
\* finished with status 0
C20_Witness ==
    /\ entry = "main" /\ pc = "main_returned"
    /\ LoadedNothing /\ Len(file) > 0
    /\ ConfigNameMissing(args)
    /\ exit_status = PyInt(0)

====
